---- MODULE Spec2Model ----
(***************************************************************************)
(* Model of src/src/App.tsx (first component of the file, lines 1-776):    *)
(* the two-viewport runner.  The React state of App is the state of the    *)
(* model.  One action is one callback (a key event, a button click, one    *)
(* firing of an interval or of the crawl timeout) together with the render *)
(* it causes and the re-registration of the interval closures by the       *)
(* effects of that render.  The collision effect, which sets the state     *)
(* again, is the step after a render that shows a collision: React runs    *)
(* the effects of a render before it handles the next callback.            *)
(*                                                                         *)
(* Numbers: every length, position and speed is a fixed-point integer in   *)
(* units of 1/Scale pixel, so that the increments 0.0008, 0.0015, 0.001    *)
(* and 0.7 of the source are exact.                                        *)
(***************************************************************************)
EXTENDS Integers, Sequences, FiniteSets, TLC

\* ------------------------------------------------------------ constants

Scale == 10000

GAME_WIDTH == 800
GAME_HEIGHT == 300
PLAYER_SIZE == 30
GROUND_HEIGHT == 50
MIN_OBSTACLE_DISTANCE == 150
LANES == 5
ROAD_WIDTH == (GAME_WIDTH * 6) \div 10
ROAD_OFFSET == (GAME_WIDTH - ROAD_WIDTH) \div 2
LANE_WIDTH == ROAD_WIDTH \div LANES
TOP_PLAYER_Y == GAME_HEIGHT - 40

\* n pixels in model units
Px(n) == n * Scale

\* const groundY = GAME_HEIGHT - GROUND_HEIGHT - PLAYER_SIZE / 2
groundY == Px(GAME_HEIGHT - GROUND_HEIGHT) - Px(PLAYER_SIZE) \div 2

\* ROAD_OFFSET + lane * LANE_WIDTH + LANE_WIDTH / 2
\* (variant: the player stands on the left edge of its lane)
LaneEdgeX(lane) == Px(ROAD_OFFSET) + lane * Px(LANE_WIDTH)

\* ROAD_OFFSET + lane * LANE_WIDTH + LANE_WIDTH / 2
LaneCenterX(lane) == Px(ROAD_OFFSET) + lane * Px(LANE_WIDTH) + Px(LANE_WIDTH) \div 2

\* setJumpVelocity(-18) and the gravity prev + 0.7
JumpImpulse == -18 * Scale
Gravity == (7 * Scale) \div 10
\* prev.y >= groundY - 5
JumpTolerance == 5

\* initial speeds, per-tick increments and caps of the three speeds
TopSpeed0 == (15 * Scale) \div 10
BottomSpeed0 == 2 * Scale
GameSpeed0 == 2 * Scale
TopSpeedInc == (8 * Scale) \div 10000
BottomSpeedInc == (15 * Scale) \div 10000
GameSpeedInc == (10 * Scale) \div 10000
TopSpeedCap == 4 * Scale
BottomSpeedCap == 6 * Scale
GameSpeedCap == 5 * Scale

\* the interval period and the two delays, in ms
TickMs == 16
CrawlMs == 600
TopCooldownMs == 2000

\* ---------------------------------------------------------------- bounds

\* game-loop ticks explored from a snapshot of the obstacle streams
StreamTicks == 3
\* game-loop ticks explored in one behaviour
MaxTicks == 2
\* jump-physics ticks explored of each jump during the game
MaxJumpTicks == 2
\* keys held at the same time
MaxKeysHeld == 2
\* game-loop ticks explored from a state in the middle of a session
MidTicks == 1
\* crawl timeouts pending at the same time
MaxPending == 1
\* live obstacles of the bottom stream, live batches of the top stream
MaxBottomLive == 1
MaxTopBatches == 1
\* jump-physics ticks explored of a jump followed to its end
JumpHorizon == 60
\* obstacles in a list handed to checkCollision on its own
MaxListLen == 2

\* ------------------------------------------------------------------ keys

LeftKeys == {"ArrowLeft", "a", "A"}
RightKeys == {"ArrowRight", "d", "D"}
JumpKeys == {"ArrowUp", "w", "W"}
CrawlKeys == {"ArrowDown", "s", "S"}
SpaceKey == " "
\* the keys the environment presses in the explored behaviours
PressedKeys == {"ArrowLeft", "ArrowRight", "ArrowUp", "ArrowDown", SpaceKey}

GameStates == {"idle", "playing", "paused", "gameOver"}
PlayerStates == {"running", "jumping", "crawling"}

\* localStorage.getItem('dualRunnerHighScore'): null, or a string, here the
\* sequence of its characters
NoItem == [found |-> FALSE, text |-> <<>>]
Item(t) == [found |-> TRUE, text |-> t]
\* the NaN of parseInt
NaN == -1
\* the items found in the storage at startup
SavedItems == {NoItem}

Digits == <<"0", "1", "2", "3", "4", "5", "6", "7", "8", "9">>
IsDigit(c) == \E i \in 1..Len(Digits) : Digits[i] = c
DigitValue(c) == CHOOSE v \in 0..9 : Digits[v + 1] = c

RECURSIVE SkipSpaces(_)
SkipSpaces(t) == IF t # <<>> /\ Head(t) = " " THEN SkipSpaces(Tail(t)) ELSE t

RECURSIVE ReadDigits(_, _)
ReadDigits(t, acc) ==
    IF t # <<>> /\ IsDigit(Head(t))
    THEN ReadDigits(Tail(t), 10 * acc + DigitValue(Head(t)))
    ELSE acc

\* parseInt(t, 10) of a string without a sign: leading white space is skipped,
\* the digits up to the first other character are read, none gives NaN
parseInt(t) ==
    LET u == SkipSpaces(t)
    IN  IF u = <<>> \/ ~IsDigit(Head(u)) THEN NaN ELSE ReadDigits(u, 0)

\* n.toString() of a natural number
RECURSIVE toString(_)
toString(n) ==
    IF n < 10 THEN <<Digits[n + 1]>>
    ELSE Append(toString(n \div 10), Digits[(n % 10) + 1])

\* the draws of Math.random() explored: thousandths for the spawn attempts,
\* hundredths for the obstacle type and the size of a top batch
SpawnDraws == {14, 15}
TypeDraws == {32, 33, 65, 66}
NumDraws == {24, 25, 99}
\* results of availableLanes.sort(() => 0.5 - Math.random())
Shuffles == {<<0, 1, 2, 3, 4>>, <<2, 4, 0, 1, 3>>}

\* Date.now() at construction: any time later than the cooldown after the epoch
StartTime == TopCooldownMs + 1

VARIABLES
    gameState,            \* 'idle' | 'playing' | 'paused' | 'gameOver'
    score,
    highScore,
    storedHighScore,      \* localStorage item 'dualRunnerHighScore'
    bottomPlayer,         \* [x, y]
    topPlayer,            \* [x, y]
    topPlayerLane,
    bottomObstacles,
    topObstacles,
    gameSpeed,
    topScreenSpeed,
    bottomScreenSpeed,
    lastTopObstacleTime,
    lastBottomObstacleX,
    keysPressed,
    bottomPlayerState,    \* 'running' | 'jumping' | 'crawling'
    jumpVelocity,
    loopBottomObstacles,  \* bottomObstacles as captured by the gameLoop closure
    pendingReverts,       \* crawl timeouts set and not yet fired
    now,                  \* Date.now(), ms
    nTicks,               \* game-loop ticks explored (bounded by MaxTicks)
    probe,                \* arguments of a function under test (<<>> in the game)
    result                \* its result (<<>> in the game)

vars == <<gameState, score, highScore, storedHighScore, bottomPlayer, topPlayer,
          topPlayerLane, bottomObstacles, topObstacles, gameSpeed, topScreenSpeed,
          bottomScreenSpeed, lastTopObstacleTime, lastBottomObstacleX, keysPressed,
          bottomPlayerState, jumpVelocity, loopBottomObstacles, pendingReverts,
          now, nTicks, probe, result>>

\* The React state of one render, as a record.
Cur ==
    [gameState |-> gameState, score |-> score, highScore |-> highScore,
     storedHighScore |-> storedHighScore, bottomPlayer |-> bottomPlayer,
     topPlayer |-> topPlayer, topPlayerLane |-> topPlayerLane,
     bottomObstacles |-> bottomObstacles, topObstacles |-> topObstacles,
     gameSpeed |-> gameSpeed, topScreenSpeed |-> topScreenSpeed,
     bottomScreenSpeed |-> bottomScreenSpeed,
     lastTopObstacleTime |-> lastTopObstacleTime,
     lastBottomObstacleX |-> lastBottomObstacleX, keysPressed |-> keysPressed,
     bottomPlayerState |-> bottomPlayerState, jumpVelocity |-> jumpVelocity,
     loopBottomObstacles |-> loopBottomObstacles,
     pendingReverts |-> pendingReverts, now |-> now, nTicks |-> nTicks]

Min(a, b) == IF a < b THEN a ELSE b
Max(a, b) == IF a > b THEN a ELSE b

\* ------------------------------------------------------ collision detector

\* (variant: the box is lowered for either player while the bottom one crawls)
PlayerBoxEitherStream(player, isBottom, bpState) ==
    LET half == Px(PLAYER_SIZE) \div 2
        crawl == bpState = "crawling"
    IN  [left |-> player.x - half,
         right |-> player.x + half,
         top |-> IF crawl THEN player.y ELSE player.y - half,
         bottom |-> IF crawl THEN player.y + Px(PLAYER_SIZE) \div 3
                             ELSE player.y + half]

\* The player's hitbox in checkCollision: the nominal square, or the lowered
\* box of a crawling bottom player.
PlayerBox(player, isBottom, bpState) ==
    LET half == Px(PLAYER_SIZE) \div 2
        crawl == isBottom /\ bpState = "crawling"
    IN  [left |-> player.x - half,
         right |-> player.x + half,
         top |-> IF crawl THEN player.y ELSE player.y - half,
         bottom |-> IF crawl THEN player.y + Px(PLAYER_SIZE) \div 3
                             ELSE player.y + half]

ObstacleBox(obs) ==
    [left |-> obs.x, right |-> obs.x + obs.width,
     top |-> obs.y, bottom |-> obs.y + obs.height]

\* (variant: boxes that only touch count as colliding)
BoxesCollideLoose(p, o) ==
    /\ p.right >= o.left
    /\ p.left <= o.right
    /\ p.bottom >= o.top
    /\ p.top <= o.bottom

\* the predicate of obstacles.some(...)
BoxesCollide(p, o) ==
    /\ p.right > o.left
    /\ p.left < o.right
    /\ p.bottom > o.top
    /\ p.top < o.bottom

checkCollision(player, obstacles, isBottom, bpState) ==
    \E i \in 1..Len(obstacles) :
        BoxesCollide(PlayerBox(player, isBottom, bpState), ObstacleBox(obstacles[i]))

\* (variant: only the bottom stream is tested)
AnyCollisionBottomOnly(s) ==
    checkCollision(s.bottomPlayer, s.bottomObstacles, TRUE, s.bottomPlayerState)

\* the condition of the collision effect
AnyCollision(s) ==
    \/ checkCollision(s.bottomPlayer, s.bottomObstacles, TRUE, s.bottomPlayerState)
    \/ checkCollision(s.topPlayer, s.topObstacles, FALSE, s.bottomPlayerState)

\* score > highScore, with a NaN high score comparing false
Exceeds(a, b) == b # NaN /\ a > b

\* the collision effect of a render sets the state again
CollisionPending(s) == s.gameState = "playing" /\ AnyCollision(s)

\* (variant: a new high score is set in memory and not written to the storage)
CollisionEffectNoSetItem(s) ==
    IF s.gameState = "playing" /\ AnyCollision(s)
    THEN IF Exceeds(s.score, s.highScore)
         THEN [s EXCEPT !.gameState = "gameOver", !.highScore = s.score]
         ELSE [s EXCEPT !.gameState = "gameOver"]
    ELSE s

\* The collision effect, run on a render in state playing.
CollisionEffect(s) ==
    IF s.gameState = "playing" /\ AnyCollision(s)
    THEN IF Exceeds(s.score, s.highScore)
         THEN [s EXCEPT !.gameState = "gameOver", !.highScore = s.score,
                        !.storedHighScore = Item(toString(s.score))]
         ELSE [s EXCEPT !.gameState = "gameOver"]
    ELSE s

\* The dependency list of the gameLoop effect: the interval and its closure are
\* replaced on a render in which one of these differs from the render before.
GameLoopDeps(s) ==
    <<s.gameState, s.gameSpeed, s.topScreenSpeed, s.bottomScreenSpeed,
      s.lastTopObstacleTime>>

GameLoopEffect(old, s) ==
    IF s.gameState = "playing" /\ GameLoopDeps(s) # GameLoopDeps(old)
    THEN [s EXCEPT !.loopBottomObstacles = s.bottomObstacles]
    ELSE s

\* One render after a callback changed the state from old to s: the effects
\* register the closures of s.
Render(old, s) == GameLoopEffect(old, s)

\* the state setters of a callback take effect: s is rendered
Commit(s) ==
    \E q \in {Render(Cur, s)} :
        /\ gameState' = q.gameState
        /\ score' = q.score
        /\ highScore' = q.highScore
        /\ storedHighScore' = q.storedHighScore
        /\ bottomPlayer' = q.bottomPlayer
        /\ topPlayer' = q.topPlayer
        /\ topPlayerLane' = q.topPlayerLane
        /\ bottomObstacles' = q.bottomObstacles
        /\ topObstacles' = q.topObstacles
        /\ gameSpeed' = q.gameSpeed
        /\ topScreenSpeed' = q.topScreenSpeed
        /\ bottomScreenSpeed' = q.bottomScreenSpeed
        /\ lastTopObstacleTime' = q.lastTopObstacleTime
        /\ lastBottomObstacleX' = q.lastBottomObstacleX
        /\ keysPressed' = q.keysPressed
        /\ bottomPlayerState' = q.bottomPlayerState
        /\ jumpVelocity' = q.jumpVelocity
        /\ loopBottomObstacles' = q.loopBottomObstacles
        /\ pendingReverts' = q.pendingReverts
        /\ now' = q.now
        /\ nTicks' = q.nTicks
        /\ UNCHANGED <<probe, result>>

\* a callback runs once the effects of the last render have run
Handle(s) == ~CollisionPending(Cur) /\ Commit(s)


\* ------------------------------------------------------------ the controls

InitialBottomPlayer == [x |-> Px(100), y |-> groundY]
InitialTopPlayer == [x |-> LaneCenterX(2), y |-> Px(TOP_PLAYER_Y)]

\* the fields startGame and resetGame both set
ResetSession(s, target) ==
    [s EXCEPT !.gameState = target,
              !.score = 0,
              !.gameSpeed = GameSpeed0,
              !.topScreenSpeed = TopSpeed0,
              !.bottomScreenSpeed = BottomSpeed0,
              !.bottomPlayer = InitialBottomPlayer,
              !.topPlayer = InitialTopPlayer,
              !.topPlayerLane = 2,
              !.bottomObstacles = <<>>,
              !.topObstacles = <<>>,
              !.bottomPlayerState = "running",
              !.jumpVelocity = 0,
              !.lastTopObstacleTime = 0]

\* (variant: a start that keeps the score of the session before)
startGameKeepsScore(s) == [ResetSession(s, "playing") EXCEPT !.score = s.score]

startGame(s) == ResetSession(s, "playing")

resetGame(s) == ResetSession(s, "idle")

\* setGameState(gameState === 'paused' ? 'playing' : 'paused')
pauseGame(s) ==
    [s EXCEPT !.gameState = IF s.gameState = "paused" THEN "playing" ELSE "paused"]

\* (variant: the handler reads the game state of the last render)
HandlerGameStateCurrent(s) == s.gameState

\* The game state the key handler reads.  The handler is registered by an effect
\* with an empty dependency list, so it is the closure of the first render, in
\* which gameState is the initial 'idle'.
HandlerGameState(s) == "idle"

handleKeyDown(s, key) ==
    IF key = SpaceKey
    THEN IF HandlerGameState(s) = "playing"
         THEN [s EXCEPT !.gameState = "paused"]
         ELSE IF HandlerGameState(s) = "paused"
              THEN [s EXCEPT !.gameState = "playing"]
              ELSE s
    ELSE [s EXCEPT !.keysPressed = s.keysPressed \cup {key}]

handleKeyUp(s, key) == [s EXCEPT !.keysPressed = s.keysPressed \ {key}]

\* ------------------------------------------------------------ the players

Held(s, keys) == s.keysPressed \cap keys # {}

\* the condition under which updatePlayers starts a jump
JumpStartsAnyState(s) ==
    /\ Held(s, JumpKeys)
    /\ s.bottomPlayer.y >= groundY - Px(JumpTolerance)

JumpStarts(s) ==
    /\ Held(s, JumpKeys)
    /\ s.bottomPlayerState = "running"
    /\ s.bottomPlayer.y >= groundY - Px(JumpTolerance)

\* the condition under which updatePlayers starts a crawl
CrawlStarts(s) ==
    /\ Held(s, CrawlKeys)
    /\ s.bottomPlayerState = "running"

\* (variant: the crawl sets no timeout)
UpdateBottomPlayerNoTimeout(s) ==
    LET j == JumpStarts(s)
        c == CrawlStarts(s)
    IN  [s EXCEPT !.bottomPlayerState =
                      IF c THEN "crawling" ELSE IF j THEN "jumping" ELSE @,
                  !.jumpVelocity = IF j THEN JumpImpulse ELSE @]

\* the bottom player's part of updatePlayers: both conditions read the
\* bottomPlayerState of the closure, the crawl's assignment comes last
UpdateBottomPlayer(s) ==
    LET j == JumpStarts(s)
        c == CrawlStarts(s)
    IN  [s EXCEPT !.bottomPlayerState =
                      IF c THEN "crawling" ELSE IF j THEN "jumping" ELSE @,
                  !.jumpVelocity = IF j THEN JumpImpulse ELSE @,
                  !.pendingReverts = IF c THEN @ + 1 ELSE @]

\* one lane to the left or to the right, with the player's x
MoveLaneUnclamped(s, dir) ==
    LET newLane == s.topPlayerLane + dir
    IN  [s EXCEPT !.topPlayerLane = newLane,
                  !.topPlayer = [@ EXCEPT !.x = LaneCenterX(newLane)]]

MoveLane(s, dir) ==
    LET newLane == IF dir < 0 THEN Max(0, s.topPlayerLane - 1)
                              ELSE Min(LANES - 1, s.topPlayerLane + 1)
    IN  [s EXCEPT !.topPlayerLane = newLane,
                  !.topPlayer = [@ EXCEPT !.x = LaneCenterX(newLane)]]

\* the left step of updatePlayers, which takes the key away
StepLeftKeepKey(s) ==
    IF Held(s, LeftKeys) THEN MoveLane(s, -1) ELSE s

StepLeft(s) ==
    IF Held(s, LeftKeys)
    THEN [MoveLane(s, -1) EXCEPT !.keysPressed = @ \ LeftKeys]
    ELSE s

\* the right step; keys is the keysPressed of the closure
StepRight(s, keys) ==
    IF keys \cap RightKeys # {}
    THEN [MoveLane(s, 1) EXCEPT !.keysPressed = @ \ RightKeys]
    ELSE s

updatePlayers(s) == StepRight(StepLeft(UpdateBottomPlayer(s)), s.keysPressed)

\* one firing of the jumpPhysics interval
jumpPhysicsNoClamp(s) ==
    LET newY == s.bottomPlayer.y + s.jumpVelocity
    IN  IF newY >= groundY
        THEN [s EXCEPT !.bottomPlayer = [@ EXCEPT !.y = newY],
                       !.bottomPlayerState = "running",
                       !.jumpVelocity = 0]
        ELSE [s EXCEPT !.bottomPlayer = [@ EXCEPT !.y = newY],
                       !.jumpVelocity = @ + Gravity]

jumpPhysics(s) ==
    LET newY == s.bottomPlayer.y + s.jumpVelocity
    IN  IF newY >= groundY
        THEN [s EXCEPT !.bottomPlayer = [@ EXCEPT !.y = groundY],
                       !.bottomPlayerState = "running",
                       !.jumpVelocity = 0]
        ELSE [s EXCEPT !.bottomPlayer = [@ EXCEPT !.y = newY],
                       !.jumpVelocity = @ + Gravity]

\* (variant: the callback looks at the game state and acts only while playing)
crawlRevertWhilePlaying(s) ==
    [s EXCEPT !.bottomPlayerState = IF s.gameState = "playing" THEN "running" ELSE @,
              !.pendingReverts = @ - 1]

\* the callback of setTimeout(() => setBottomPlayerState('running'), 600)
crawlRevert(s) ==
    [s EXCEPT !.bottomPlayerState = "running", !.pendingReverts = @ - 1]


\* ------------------------------------------------------ obstacle generator

\* Math.random() < 0.015, the draw in thousandths
SpawnDraw(r) == r < 15

\* the type chosen by generateObstacle(false), the draw in hundredths
ObstacleType(rand) ==
    IF rand < 33 THEN "pit" ELSE IF rand < 66 THEN "ground_box" ELSE "air_branch"

\* generateObstacle(false)
generateObstacle(id, rand) ==
    LET type == ObstacleType(rand)
    IN  IF type = "pit"
        THEN [id |-> id, x |-> Px(GAME_WIDTH), y |-> Px(GAME_HEIGHT - GROUND_HEIGHT),
              width |-> Px(50), height |-> Px(30), type |-> "pit", lane |-> -1]
        ELSE IF type = "ground_box"
        THEN [id |-> id, x |-> Px(GAME_WIDTH),
              y |-> Px(GAME_HEIGHT - GROUND_HEIGHT - 40),
              width |-> Px(35), height |-> Px(40), type |-> "ground_box", lane |-> -1]
        ELSE [id |-> id, x |-> Px(GAME_WIDTH),
              y |-> Px(GAME_HEIGHT - GROUND_HEIGHT - 45),
              width |-> Px(60), height |-> Px(15), type |-> "air_branch", lane |-> -1]

\* (variant: the number of obstacles drawn from 1 to LANES)
NumObstaclesUpToLanes(rand) == (rand * LANES) \div 100 + 1

\* Math.floor(Math.random() * (LANES - 1)) + 1, the draw in hundredths
NumObstacles(rand) == (rand * (LANES - 1)) \div 100 + 1

\* one obstacle of a top batch
TopObstacle(id, lane) ==
    [id |-> id,
     x |-> Px(ROAD_OFFSET) + lane * Px(LANE_WIDTH) + Px(LANE_WIDTH) \div 10,
     y |-> Px(-30),
     width |-> (Px(LANE_WIDTH) * 8) \div 10,
     height |-> Px(30),
     type |-> "normal",
     lane |-> lane]

\* ---------------------------------------------------------- the game loop

\* (variant: the move lowers the obstacle as well)
MoveBottomObstaclesSinking(obstacles, speed) ==
    SelectSeq([i \in 1..Len(obstacles) |->
                   [obstacles[i] EXCEPT !.x = @ - speed, !.y = @ + speed]],
              LAMBDA obs : obs.x > -obs.width)

\* (variant: an obstacle whose right edge is on the view's edge is kept)
MoveBottomObstaclesKeepEdge(obstacles, speed) ==
    SelectSeq([i \in 1..Len(obstacles) |-> [obstacles[i] EXCEPT !.x = @ - speed]],
              LAMBDA obs : obs.x >= -obs.width)

\* prev.map(obs => ({...obs, x: obs.x - speed})).filter(obs => obs.x > -obs.width)
MoveBottomObstacles(obstacles, speed) ==
    SelectSeq([i \in 1..Len(obstacles) |-> [obstacles[i] EXCEPT !.x = @ - speed]],
              LAMBDA obs : obs.x > -obs.width)

\* prev.map(obs => ({...obs, y: obs.y + speed})).filter(obs => obs.y < GAME_HEIGHT + obs.height)
MoveTopObstacles(obstacles, speed) ==
    SelectSeq([i \in 1..Len(obstacles) |-> [obstacles[i] EXCEPT !.y = @ + speed]],
              LAMBDA obs : obs.y < Px(GAME_HEIGHT) + obs.height)

\* the bottom spawn: the attempt, and the spacing test on lastBottomObstacleX
BottomSpawns(s, d) ==
    /\ SpawnDraw(d.bottomRand)
    /\ Px(GAME_WIDTH) - s.lastBottomObstacleX > Px(MIN_OBSTACLE_DISTANCE)

\* (variant: a top spawn on every successful attempt)
TopSpawnsNoCooldown(s, d, currentTime) == SpawnDraw(d.topRand)

\* the top spawn: the attempt, and the cooldown on the wall clock
TopSpawns(s, d, currentTime) ==
    /\ SpawnDraw(d.topRand)
    /\ currentTime - s.lastTopObstacleTime > TopCooldownMs

\* the second setLastBottomObstacleX: the last obstacle of the closure's
\* bottomObstacles, or the previous value less the game speed
TrackLastBottomX(s, prev) ==
    LET closed == s.loopBottomObstacles
    IN  IF Len(closed) > 0 THEN closed[Len(closed)].x ELSE prev - s.gameSpeed

\* setScore(prev => prev + 1)
ScoreFrozen(sc) == sc

NextScore(sc) == sc + 1

\* (variant: the bottom stream's speed has no cap)
NextBottomSpeedUncapped(v) == v + BottomSpeedInc

\* setBottomScreenSpeed(prev => Math.min(prev + 0.0015, 6))
NextBottomSpeed(v) == Min(v + BottomSpeedInc, BottomSpeedCap)

\* setTopScreenSpeed(prev => Math.min(prev + 0.0008, 4))
NextTopSpeed(v) == Min(v + TopSpeedInc, TopSpeedCap)

\* The ids of the obstacles of a tick stand for its draws of Math.random():
\* the i-th number that no live obstacle has as its id.
LiveIds(s) ==
    {s.bottomObstacles[i].id : i \in 1..Len(s.bottomObstacles)}
        \cup {s.topObstacles[i].id : i \in 1..Len(s.topObstacles)}

FreshId(s, i) ==
    LET free == 1..(Cardinality(LiveIds(s)) + LANES + 1) \ LiveIds(s)
    IN  CHOOSE x \in free : Cardinality({y \in free : y < x}) = i - 1

\* obstacleLanes.map(...): shuffled is availableLanes after the sort
TopBatch(s, shuffled, numRand) ==
    [i \in 1..NumObstacles(numRand) |-> TopObstacle(FreshId(s, i + 1), shuffled[i])]

\* One firing of the gameLoop interval, TickMs after the one before; d holds
\* the random draws of the tick.
gameLoop(s, d) ==
    LET currentTime == s.now + TickMs
        sb == BottomSpawns(s, d)
        st == TopSpawns(s, d, currentTime)
        movedBottom == MoveBottomObstacles(s.bottomObstacles, s.bottomScreenSpeed)
        movedTop == MoveTopObstacles(s.topObstacles, s.topScreenSpeed)
        batch == TopBatch(s, d.shuffle, d.numRand)
    IN  [s EXCEPT
            !.bottomObstacles =
                IF sb THEN Append(movedBottom, generateObstacle(FreshId(s, 1), d.typeRand))
                      ELSE movedBottom,
            !.topObstacles = IF st THEN movedTop \o batch ELSE movedTop,
            !.lastBottomObstacleX =
                TrackLastBottomX(s, IF sb THEN Px(GAME_WIDTH) ELSE @),
            !.lastTopObstacleTime = IF st THEN currentTime ELSE @,
            !.score = NextScore(@),
            !.topScreenSpeed = NextTopSpeed(@),
            !.bottomScreenSpeed = NextBottomSpeed(@),
            !.gameSpeed = Min(@ + GameSpeedInc, GameSpeedCap),
            !.now = currentTime,
            !.nTicks = @ + 1]


\* ------------------------------------------------------------------- game

\* saved ? parseInt(saved, 10) : 0, null and the empty string being falsy
ParseSaved(item) ==
    IF item.found /\ item.text # <<>> THEN parseInt(item.text) ELSE 0

\* the values of the useState calls of App
InitialState(item) ==
    [gameState |-> "idle", score |-> 0, highScore |-> ParseSaved(item),
     storedHighScore |-> item, bottomPlayer |-> InitialBottomPlayer,
     topPlayer |-> InitialTopPlayer, topPlayerLane |-> 2,
     bottomObstacles |-> <<>>, topObstacles |-> <<>>,
     gameSpeed |-> GameSpeed0, topScreenSpeed |-> TopSpeed0,
     bottomScreenSpeed |-> BottomSpeed0,
     lastTopObstacleTime |-> 0,
     lastBottomObstacleX |-> Px(GAME_WIDTH), keysPressed |-> {},
     bottomPlayerState |-> "running", jumpVelocity |-> 0,
     loopBottomObstacles |-> <<>>,
     pendingReverts |-> 0, now |-> StartTime, nTicks |-> 0]

\* the game is in state q
Install(q) ==
    /\ gameState = q.gameState
    /\ score = q.score
    /\ highScore = q.highScore
    /\ storedHighScore = q.storedHighScore
    /\ bottomPlayer = q.bottomPlayer
    /\ topPlayer = q.topPlayer
    /\ topPlayerLane = q.topPlayerLane
    /\ bottomObstacles = q.bottomObstacles
    /\ topObstacles = q.topObstacles
    /\ gameSpeed = q.gameSpeed
    /\ topScreenSpeed = q.topScreenSpeed
    /\ bottomScreenSpeed = q.bottomScreenSpeed
    /\ lastTopObstacleTime = q.lastTopObstacleTime
    /\ lastBottomObstacleX = q.lastBottomObstacleX
    /\ keysPressed = q.keysPressed
    /\ bottomPlayerState = q.bottomPlayerState
    /\ jumpVelocity = q.jumpVelocity
    /\ loopBottomObstacles = q.loopBottomObstacles
    /\ pendingReverts = q.pendingReverts
    /\ now = q.now
    /\ nTicks = q.nTicks

\* the state after construction
Init ==
    /\ \E item \in SavedItems : Install(InitialState(item))
    /\ probe = <<>>
    /\ result = <<>>

\* the start buttons: the start screen (idle) and the game-over overlay
StartGame ==
    /\ gameState \in {"idle", "gameOver"}
    /\ \E s \in {Cur} : Handle(startGame(s))

\* (variant: a pause button offered in every state)
PauseGameAnyState ==
    \E s \in {Cur} : Handle(pauseGame(s))

\* the pause button (playing) and the continue button of the pause overlay
PauseGame ==
    /\ gameState \in {"playing", "paused"}
    /\ \E s \in {Cur} : Handle(pauseGame(s))

\* the reset button, rendered while playing or paused
ResetGame ==
    /\ gameState \in {"playing", "paused"}
    /\ \E s \in {Cur} : Handle(resetGame(s))

KeyDown ==
    \E key \in PressedKeys, s \in {Cur} :
        /\ key = SpaceKey \/ Cardinality(keysPressed \cup {key}) <= MaxKeysHeld
        /\ Handle(handleKeyDown(s, key))

KeyUp ==
    \E key \in PressedKeys, s \in {Cur} : Handle(handleKeyUp(s, key))

\* one firing of the updatePlayers interval, set only while playing
UpdatePlayersTick ==
    /\ gameState = "playing"
    /\ CrawlStarts(Cur) => pendingReverts < MaxPending
    /\ \E s \in {Cur} : Handle(updatePlayers(s))

\* one firing of the jumpPhysics interval, set only while playing and jumping
JumpTick(limit) ==
    /\ gameState = "playing"
    /\ bottomPlayerState = "jumping"
    /\ jumpVelocity < JumpImpulse + limit * Gravity
    /\ \E s \in {Cur} : Handle(jumpPhysics(s))

JumpPhysicsTick == JumpTick(MaxJumpTicks)

\* the random draws of one game-loop tick
Draws ==
    LET roomBottom == Len(bottomObstacles) < MaxBottomLive
        roomTop == Cardinality({topObstacles[i].y : i \in 1..Len(topObstacles)})
                       < MaxTopBatches
        quiet == CHOOSE r \in SpawnDraws : ~SpawnDraw(r)
        bottoms == { <<b, t>> : b \in {r \in SpawnDraws : roomBottom /\ SpawnDraw(r)},
                               t \in TypeDraws }
                   \cup {<<quiet, CHOOSE t \in TypeDraws : TRUE>>}
        tops == { <<u, n, p>> : u \in {r \in SpawnDraws : roomTop /\ SpawnDraw(r)},
                                n \in NumDraws, p \in Shuffles }
                \cup {<<quiet, CHOOSE n \in NumDraws : TRUE,
                               CHOOSE p \in Shuffles : TRUE>>}
    IN  { [bottomRand |-> b[1], typeRand |-> b[2], topRand |-> u[1],
           numRand |-> u[2], shuffle |-> u[3]] : b \in bottoms, u \in tops }

\* (variant: the interval is not cleared when the game leaves playing)
GameLoopTickAnyState ==
    /\ nTicks < MaxTicks
    /\ \E d \in Draws, s \in {Cur} : Handle(gameLoop(s, d))

\* one firing of the gameLoop interval, set only while playing
GameLoopTick ==
    /\ gameState = "playing"
    /\ nTicks < MaxTicks
    /\ \E d \in Draws, s \in {Cur} : Handle(gameLoop(s, d))

\* the crawl timeout fires, whatever the game state
CrawlRevert ==
    /\ pendingReverts > 0
    /\ \E s \in {Cur} : Handle(crawlRevert(s))

\* the collision effect of a render in state playing that shows a collision
CollisionEffectRun ==
    /\ CollisionPending(Cur)
    /\ \E s \in {Cur} : Commit(CollisionEffect(s))

Next ==
    \/ CollisionEffectRun
    \/ StartGame
    \/ PauseGame
    \/ ResetGame
    \/ KeyDown
    \/ KeyUp
    \/ UpdatePlayersTick
    \/ JumpPhysicsTick
    \/ GameLoopTick
    \/ CrawlRevert

Spec == Init /\ [][Next]_vars


\* ------------------------------------------------- the middle of a session

\* one game-loop tick, its render and its effects, as a function of the state
Step(s, d) ==
    IF s.gameState = "playing" THEN CollisionEffect(Render(s, gameLoop(s, d))) ELSE s

\* the draws of a tick on which neither stream attempts a spawn
QuietDraws ==
    [bottomRand |-> 15, typeRand |-> 32, topRand |-> 15, numRand |-> 24,
     shuffle |-> <<0, 1, 2, 3, 4>>]

RECURSIVE QuietTicks(_, _)
QuietTicks(s, n) ==
    IF n = 0 THEN s
    ELSE IF n = 1 THEN Step(s, QuietDraws)
    ELSE CHOOSE r \in { QuietTicks(h, n - n \div 2) : h \in {QuietTicks(s, n \div 2)} } : TRUE

\* The state n game-loop ticks after a start from the state after construction,
\* the first tick with draws d and the others quiet, no key pressed.
Played(d, n) ==
    LET fresh == InitialState(NoItem)
    IN  QuietTicks(Step(Render(fresh, startGame(fresh)), d), n - 1)

\* The state after k quiet ticks, one tick with draws d and n more quiet ticks
\* of a session started from the state after construction, no key pressed.
PlayedLate(k, d, n) ==
    LET fresh == InitialState(NoItem)
    IN  QuietTicks(Step(QuietTicks(Render(fresh, startGame(fresh)), k), d), n)

\* Within MaxTicks ticks of the construction no obstacle comes near a player.
\* The sessions explored from their middle: the quiet ticks before the spawn,
\* the draws of the spawn tick and the quiet ticks after it.  A barrier spawned
\* on tick 1 reaches the top player on tick 158 and leaves the list on tick
\* 228.  The bottom stream cannot spawn before tick 75 (lastBottomObstacleX
\* starts at GAME_WIDTH and falls by the game speed); an obstacle spawned on
\* tick 75 reaches the bottom player on tick 369.
MidSessions ==
    { <<0, [QuietDraws EXCEPT !.topRand = 14, !.shuffle = <<2, 4, 0, 1, 3>>], 156>>,
      <<0, [QuietDraws EXCEPT !.topRand = 14, !.numRand = 25], 156>>,
      <<0, [QuietDraws EXCEPT !.topRand = 14, !.numRand = 25], 226>>,
      <<74, [QuietDraws EXCEPT !.bottomRand = 14, !.typeRand = 33], 293>>,
      <<74, [QuietDraws EXCEPT !.bottomRand = 14, !.typeRand = 32], 293>>,
      <<74, [QuietDraws EXCEPT !.bottomRand = 14, !.typeRand = 66], 293>> }

InitMid ==
    /\ \E m \in MidSessions :
           Install([PlayedLate(m[1], m[2], m[3]) EXCEPT !.nTicks = MaxTicks - MidTicks])
    /\ probe = <<>>
    /\ result = <<>>

SpecMid == InitMid /\ [][Next]_vars

\* The same from any state of a session just started.
PlayedFrom(started, k, d, n) == QuietTicks(Step(QuietTicks(started, k), d), n)

\* A session started within the 600 ms of a crawl of the session before: the
\* player crawls, the game is reset and started, the player jumps, and the
\* timeout of the crawl goes off two physics ticks into the jump.  The state is
\* running again and the jumpPhysics interval is gone: the player stays in the
\* air.
FloatingStart ==
    LET fresh == InitialState(NoItem)
        crawled == updatePlayers(handleKeyDown(Render(fresh, startGame(fresh)), "ArrowDown"))
        again == startGame(resetGame(handleKeyUp(crawled, "ArrowDown")))
        jumped == updatePlayers(handleKeyDown(again, "ArrowUp"))
        risen == jumpPhysics(jumpPhysics(handleKeyUp(jumped, "ArrowUp")))
    IN  crawlRevert(risen)

\* that session when a ground_box spawned on its tick 75 is about to reach the
\* player
InitFloat ==
    /\ \E q \in {PlayedFrom(FloatingStart, 74,
                             [QuietDraws EXCEPT !.bottomRand = 14, !.typeRand = 33], 293)} :
           Install([q EXCEPT !.nTicks = MaxTicks - MidTicks])
    /\ probe = <<>>
    /\ result = <<>>

SpecFloat == InitFloat /\ [][Next]_vars

\* a timeout that is set fires, and the effects of a render run after it
SpecMidFair == SpecMid /\ WF_vars(CrawlRevert) /\ WF_vars(CollisionEffectRun)

\* ------------------------------------------ sessions with a saved high score

\* the strings found in the storage at startup: empty, not a number, numbers
\* below, at and above the score of the collision, a number with white space
\* before it and a letter after it
SavedTexts ==
    { <<>>, <<"a", "b", "c">>, <<"1", "0", "0">>, <<"1", "5", "8">>,
      <<"4", "0", "0">>, <<" ", "9", "9", "x">> }

SavedAtStartup == {NoItem} \cup {Item(t) : t \in SavedTexts}

\* the session with the barrier in the top player's lane
SavedSession == <<[QuietDraws EXCEPT !.topRand = 14, !.shuffle = <<2, 4, 0, 1, 3>>], 157>>

\* The high score is read by the collision effect only, and no collision
\* happens before the snapshot: the session played is the same for every item,
\* with the high score of the item's construction.
InitSaved ==
    /\ \E item \in SavedAtStartup :
           Install([Played(SavedSession[1], SavedSession[2])
                        EXCEPT !.highScore = InitialState(item).highScore,
                               !.storedHighScore = InitialState(item).storedHighScore,
                               !.nTicks = MaxTicks - MidTicks])
    /\ probe = <<>>
    /\ result = <<>>

SpecSaved == InitSaved /\ [][Next]_vars

\* ------------------------------------------------- a jump followed to its end

\* the jumpPhysics interval, explored up to JumpHorizon ticks of a jump
JumpPhysicsRun == JumpTick(JumpHorizon)

\* a session just started from the state after construction
InitJump ==
    /\ \E fresh \in {InitialState(NoItem)} : Install(Render(fresh, startGame(fresh)))
    /\ probe = <<>>
    /\ result = <<>>

\* play without game-loop ticks, pause, reset or start
NextJump ==
    \/ KeyDown
    \/ KeyUp
    \/ UpdatePlayersTick
    \/ JumpPhysicsRun
    \/ CrawlRevert

SpecJump == InitJump /\ [][NextJump]_vars

\* the same with the buttons: jumps followed to their end across pause, resume,
\* reset and start
NextSession ==
    \/ NextJump
    \/ StartGame
    \/ PauseGame
    \/ ResetGame

SpecSession == InitJump /\ [][NextSession]_vars

\* a timeout that is set fires: the browser runs the callback of setTimeout
\* once its delay has passed, whatever the page does meanwhile
SpecSessionFair == SpecSession /\ WF_vars(CrawlRevert)

\* ------------------------------------------------- the two obstacle streams

\* the draws of a tick with every spawn attempt free, whatever is live
StreamDraws ==
    [bottomRand : SpawnDraws, typeRand : TypeDraws, topRand : SpawnDraws,
     numRand : NumDraws, shuffle : Shuffles]

\* one firing of the gameLoop interval
StreamTick ==
    /\ gameState = "playing"
    /\ nTicks < StreamTicks
    /\ \E d \in StreamDraws, s \in {Cur} : Handle(gameLoop(s, d))

\* Sessions in which an obstacle has come close to the distance, or the time,
\* that allows the next spawn of its stream: a ground_box spawned on tick 75
\* and 68 to 71 ticks old, and a batch spawned on tick 1 in lanes 0 and 1 (the
\* player is in lane 2) and 124 or 125 ticks old.
StreamSessions ==
    { <<74, [QuietDraws EXCEPT !.bottomRand = 14, !.typeRand = 33], n>> : n \in 68..71 }
        \cup { <<0, [QuietDraws EXCEPT !.topRand = 14, !.numRand = 25], n>> : n \in 124..125 }

InitStream ==
    /\ \E m \in StreamSessions :
           Install([PlayedLate(m[1], m[2], m[3]) EXCEPT !.nTicks = 0])
    /\ probe = <<>>
    /\ result = <<>>

NextStream ==
    \/ StreamTick
    \/ PauseGame
    \/ ResetGame
    \/ StartGame

SpecStream == InitStream /\ [][NextStream]_vars

\* ------------------------------------------------- a pause longer than the cooldown

\* The wall clock goes on while the game is paused: Date.now() of the next tick
\* is later by the length of the pause.  One pause as long as the cooldown is
\* followed per batch.
PausedWait ==
    /\ gameState = "paused"
    /\ now - lastTopObstacleTime < TopCooldownMs
    /\ \E s \in {Cur} : Handle([s EXCEPT !.now = @ + TopCooldownMs])

\* sessions whose first tick spawned a batch of two or of four barriers
PauseSessions ==
    { <<0, [QuietDraws EXCEPT !.topRand = 14, !.numRand = n], 0>> : n \in {25, 99} }

InitPause ==
    /\ \E m \in PauseSessions :
           Install([PlayedLate(m[1], m[2], m[3]) EXCEPT !.nTicks = 0])
    /\ probe = <<>>
    /\ result = <<>>

NextPause ==
    \/ NextStream
    \/ PausedWait

SpecPause == InitPause /\ [][NextPause]_vars

\* -------------------------------------------------- the speeds at their caps

\* Sessions without a spawn, at their start and shortly before a speed reaches
\* its cap: the bottom stream's passes 6 on tick 2667, the top stream's is 4
\* on tick 3125.
SpeedSessions == {0, 2665, 3123}

InitSpeed ==
    /\ \E n \in SpeedSessions :
           Install([PlayedLate(0, QuietDraws, n) EXCEPT !.nTicks = 0])
    /\ probe = <<>>
    /\ result = <<>>

SpecSpeed == InitSpeed /\ [][NextStream]_vars

\* ---------------------------------------------- checkCollision on its own

\* obstacle boxes around the hitboxes of a bottom player standing at x = 100 on
\* the ground: apart from them, touching them and overlapping them
ProbeXs == {70, 75, 80, 115, 120}
ProbeYs == {205, 210, 215, 225, 240, 245, 250}
ProbeBoxes ==
    { [id |-> 1, x |-> Px(x), y |-> Px(y), width |-> Px(10), height |-> Px(10),
       type |-> "ground_box", lane |-> -1] : x \in ProbeXs, y \in ProbeYs }

RECURSIVE SeqsUpTo(_, _)
SeqsUpTo(S, n) ==
    IF n = 0 THEN {<<>>}
    ELSE LET shorter == SeqsUpTo(S, n - 1)
         IN  shorter \cup { Append(q, x) : q \in shorter, x \in S }

\* the arguments of one call, and the bottomPlayerState its closure reads
Probes ==
    [player : {InitialBottomPlayer}, obstacles : SeqsUpTo(ProbeBoxes, MaxListLen),
     isBottom : BOOLEAN, bpState : PlayerStates]

InitCollide ==
    /\ Install(InitialState(NoItem))
    /\ probe \in Probes
    /\ result = <<>>

\* one call of checkCollision
CallCheckCollision ==
    /\ probe # <<>>
    /\ result = <<>>
    /\ result' = <<checkCollision(probe.player, probe.obstacles, probe.isBottom,
                                  probe.bpState)>>
    /\ UNCHANGED <<gameState, score, highScore, storedHighScore, bottomPlayer,
                   topPlayer, topPlayerLane, bottomObstacles, topObstacles, gameSpeed,
                   topScreenSpeed, bottomScreenSpeed, lastTopObstacleTime,
                   lastBottomObstacleX, keysPressed, bottomPlayerState, jumpVelocity,
                   loopBottomObstacles, pendingReverts, now, nTicks, probe>>

SpecCollide == InitCollide /\ [][CallCheckCollision]_vars

\* ------------------------------------------------ a top batch on its own

\* what availableLanes.sort(() => 0.5 - Math.random()) can return: the lanes in
\* any order
LaneOrders ==
    { p \in [1..LANES -> 0..(LANES - 1)] : \A i, j \in 1..LANES : p[i] = p[j] => i = j }

\* the draws of one batch: the order of the lanes, and Math.random() in hundredths
BatchProbes == [shuffle : LaneOrders, numRand : 0..99]

InitBatch ==
    /\ \E fresh \in {InitialState(NoItem)} : Install(Render(fresh, startGame(fresh)))
    /\ probe \in BatchProbes
    /\ result = <<>>

\* the batch of one top spawn
CallTopBatch ==
    /\ probe # <<>>
    /\ result = <<>>
    /\ result' = <<TopBatch(Cur, probe.shuffle, probe.numRand)>>
    /\ UNCHANGED <<gameState, score, highScore, storedHighScore, bottomPlayer,
                   topPlayer, topPlayerLane, bottomObstacles, topObstacles, gameSpeed,
                   topScreenSpeed, bottomScreenSpeed, lastTopObstacleTime,
                   lastBottomObstacleX, keysPressed, bottomPlayerState, jumpVelocity,
                   loopBottomObstacles, pendingReverts, now, nTicks, probe>>

SpecBatch == InitBatch /\ [][CallTopBatch]_vars

\* ------------------------------------- the top player and a barrier of a lane

\* the heights of a live barrier: every pixel from its spawn at -30 to the last
\* one the filter keeps, and the fractions next to the player's edges
BarrierYs ==
    {Px(y) : y \in -30..(GAME_HEIGHT + 29)}
        \cup {Px(TOP_PLAYER_Y - PLAYER_SIZE \div 2) - TopObstacle(1, 0).height + 1,
              Px(TOP_PLAYER_Y + PLAYER_SIZE \div 2) - 1}

\* the top player in a lane, as updatePlayers places it, and a barrier of a
\* lane, as the top spawn builds it and the ticks lower it
LaneProbes ==
    { [lane |-> p,
       player |-> [x |-> LaneCenterX(p), y |-> Px(TOP_PLAYER_Y)],
       obstacles |-> <<[TopObstacle(1, q) EXCEPT !.y = y]>>,
       isBottom |-> FALSE,
       bpState |-> st] : p \in 0..(LANES - 1), q \in 0..(LANES - 1), y \in BarrierYs,
                         st \in PlayerStates }

InitLane ==
    /\ Install(InitialState(NoItem))
    /\ probe \in LaneProbes
    /\ result = <<>>

SpecLane == InitLane /\ [][CallCheckCollision]_vars

\* ------------------------------------- a bottom obstacle at a constant speed

\* the speeds explored: the cap of the bottom stream, one that divides
\* GAME_WIDTH + width for every type, and one with a fraction
DriftSpeeds == {BottomSpeedCap, Px(5), (Px(5) \div 2) + 15}

\* an obstacle of each type, just spawned, and the speed of its stream
InitDrift ==
    /\ \E fresh \in {InitialState(NoItem)} : Install(Render(fresh, startGame(fresh)))
    /\ \E speed \in DriftSpeeds, t \in TypeDraws :
           /\ probe = [speed |-> speed, ticks |-> 0, spawned |-> generateObstacle(1, t)]
           /\ result = <<generateObstacle(1, t)>>

\* the move of the bottom obstacles of one tick, as long as the obstacle lives
DriftTick ==
    /\ result # <<>>
    /\ result' = MoveBottomObstacles(result, probe.speed)
    /\ probe' = [probe EXCEPT !.ticks = @ + 1]
    /\ UNCHANGED <<gameState, score, highScore, storedHighScore, bottomPlayer,
                   topPlayer, topPlayerLane, bottomObstacles, topObstacles, gameSpeed,
                   topScreenSpeed, bottomScreenSpeed, lastTopObstacleTime,
                   lastBottomObstacleX, keysPressed, bottomPlayerState, jumpVelocity,
                   loopBottomObstacles, pendingReverts, now, nTicks>>

SpecDrift == InitDrift /\ [][DriftTick]_vars

\* ================================================================ the claims

\* two boxes share a region of positive width and height
Intersect(p, o) ==
    /\ Min(p.right, o.right) - Max(p.left, o.left) > 0
    /\ Min(p.bottom, o.bottom) - Max(p.top, o.top) > 0

\* a player's hitbox and a live obstacle of its stream intersect
Overlap ==
    \/ \E i \in 1..Len(bottomObstacles) :
           Intersect(PlayerBox(bottomPlayer, TRUE, bottomPlayerState),
                     ObstacleBox(bottomObstacles[i]))
    \/ \E i \in 1..Len(topObstacles) :
           Intersect(PlayerBox(topPlayer, FALSE, bottomPlayerState),
                     ObstacleBox(topObstacles[i]))

AllowedTransitions ==
    {<<"idle", "playing">>, <<"playing", "paused">>, <<"paused", "playing">>,
     <<"playing", "gameOver">>, <<"gameOver", "playing">>}
        \cup {<<g, "idle">> : g \in GameStates}

\* C1: every change of the game state is idle->playing, playing->paused,
\* paused->playing, playing->gameOver, gameOver->playing or a change to idle;
\* paused->gameOver, idle->paused, gameOver->paused and idle->gameOver never occur.
C1_Transitions ==
    [][gameState' # gameState => <<gameState, gameState'>> \in AllowedTransitions]_vars

\* a session ended by a collision
C1_Witness == gameState = "gameOver" /\ score > 0

\* C2: a space key-down received while playing pauses the game, and one received
\* while paused resumes it, for the handler as it is registered at mount.
C2_SpaceToggles ==
    /\ gameState = "playing" => handleKeyDown(Cur, SpaceKey).gameState = "paused"
    /\ gameState = "paused" => handleKeyDown(Cur, SpaceKey).gameState = "playing"

C4_StrictOverlap ==
    result # <<>> =>
        result[1] = (\E i \in 1..Len(probe.obstacles) :
                         Intersect(PlayerBox(probe.player, probe.isBottom, probe.bpState),
                                   ObstacleBox(probe.obstacles[i])))

\* the box touches the hitbox at an edge
TouchesOnly(p, o) ==
    /\ ~Intersect(p, o)
    /\ Min(p.right, o.right) - Max(p.left, o.left) >= 0
    /\ Min(p.bottom, o.bottom) - Max(p.top, o.top) >= 0

\* a call on two boxes, one touching the hitbox and one overlapping it, and a
\* call on a box that only touches
C4_Witness ==
    /\ result # <<>>
    /\ Len(probe.obstacles) = 2
    /\ result[1]
    /\ TouchesOnly(PlayerBox(probe.player, probe.isBottom, probe.bpState),
                   ObstacleBox(probe.obstacles[1]))

\* C5: every game-loop tick in state playing adds exactly 1 to the score, with or
\* without a spawn or a removal; player-update ticks, jump-physics ticks, key
\* events and the crawl revert leave the score as it is.  (The game-loop ticks
\* are the steps on which the clock that the tick reads advances.)
C5_ScorePerTick ==
    [][/\ now' # now => gameState = "playing" /\ score' = score + 1
       /\ score' # score =>
              ~(UpdatePlayersTick \/ JumpPhysicsTick \/ KeyDown \/ KeyUp \/ CrawlRevert)]_vars

\* the tick on which the barriers of the first tick leave the view
C5_Witness == score = 228 /\ topObstacles = <<>> /\ gameState = "playing"

\* C6: the score changes only by the +1 of a tick in state playing or by the
\* reset to 0 of start and reset; in idle, paused and gameOver it is frozen.
C6_ScoreMonotone ==
    [][score' # score =>
          \/ gameState = "playing" /\ score' = score + 1
          \/ score' = 0 /\ (StartGame \/ ResetGame)]_vars

\* a paused session with ticks played
C6_Witness == gameState = "paused" /\ score > 0

\* C7: the lane index of the top player is in [0, LANES-1] and the top player's
\* x is the centre of that lane.
C7_LaneInRange ==
    /\ topPlayerLane \in 0..(LANES - 1)
    /\ topPlayer.x = Px(ROAD_OFFSET) + topPlayerLane * Px(LANE_WIDTH) + Px(LANE_WIDTH) \div 2

\* the top player in the leftmost lane
C7_Witness == topPlayerLane = 0 /\ gameState = "playing"

\* the lane one step to the left, to the right
LaneLeft(l) == IF l = 0 THEN 0 ELSE l - 1
LaneRight(l) == IF l = LANES - 1 THEN l ELSE l + 1

Trajectory(n) == groundY + n * JumpImpulse + Gravity * ((n * (n - 1)) \div 2)

\* the first tick on which the trajectory is back at the ground
JumpLength ==
    CHOOSE n \in 1..JumpHorizon :
        /\ Trajectory(n) >= groundY
        /\ \A m \in 1..(n - 1) : Trajectory(m) < groundY

\* C9: a jump from the ground follows one trajectory: on every tick before the
\* JumpLength-th the player is strictly above the ground, and the JumpLength-th
\* tick puts it at exactly groundY with velocity 0 and state running.
C9_JumpLands ==
    [][JumpPhysicsRun =>
          \E n \in 0..(JumpLength - 1) :
              /\ jumpVelocity = JumpImpulse + n * Gravity
              /\ bottomPlayer.y = Trajectory(n)
              /\ n > 0 => bottomPlayer.y < groundY
              /\ IF n = JumpLength - 1
                 THEN /\ bottomPlayer'.y = groundY
                      /\ jumpVelocity' = 0
                      /\ bottomPlayerState' = "running"
                 ELSE /\ bottomPlayer'.y = Trajectory(n + 1)
                      /\ bottomPlayer'.y < groundY
                      /\ bottomPlayerState' = "jumping"]_vars

\* the last tick of a jump in the air
C9_Witness ==
    /\ bottomPlayerState = "jumping"
    /\ bottomPlayer.y < groundY
    /\ bottomPlayer.y + jumpVelocity >= groundY

\* C10: the state becomes jumping only on a player-update tick with a jump key
\* held, the state running and y within 5 of the ground, and then the velocity is
\* -18; such a tick without a crawl key starts the jump; a player-update tick in
\* state jumping or crawling changes neither the state nor the velocity.
C10_JumpStart ==
    [][/\ (bottomPlayerState' = "jumping" /\ bottomPlayerState # "jumping") =>
              /\ UpdatePlayersTick
              /\ Held(Cur, JumpKeys)
              /\ bottomPlayerState = "running"
              /\ bottomPlayer.y >= groundY - Px(5)
              /\ jumpVelocity' = -18 * Scale
       /\ (/\ UpdatePlayersTick
           /\ Held(Cur, JumpKeys)
           /\ ~Held(Cur, CrawlKeys)
           /\ bottomPlayerState = "running"
           /\ bottomPlayer.y >= groundY - Px(5)) =>
              bottomPlayerState' = "jumping" /\ jumpVelocity' = -18 * Scale
       /\ (UpdatePlayersTick /\ bottomPlayerState \in {"jumping", "crawling"}) =>
              bottomPlayerState' = bottomPlayerState /\ jumpVelocity' = jumpVelocity]_vars

\* a jump key still held during a jump that has left the ground
C10_Witness ==
    /\ bottomPlayerState = "jumping"
    /\ Held(Cur, JumpKeys)
    /\ jumpVelocity > JumpImpulse

\* C11: the bottom player's y is at most groundY in every reachable state, in
\* all three motion states and across start, pause, resume and reset.
C11_NeverBelowGround == bottomPlayer.y <= groundY

\* a paused jump one tick before its landing
C11_Witness ==
    /\ gameState = "paused"
    /\ bottomPlayerState = "jumping"
    /\ bottomPlayer.y + jumpVelocity >= groundY

\* C12: whenever the bottom player is crawling it is running again later, with
\* no input needed: the timeout set with the crawl fires and sets running.
C12_CrawlEnds == (bottomPlayerState = "crawling") ~> (bottomPlayerState = "running")

\* a crawl in progress, its timeout pending, while the game is paused
C12_Witness ==
    /\ bottomPlayerState = "crawling"
    /\ pendingReverts > 0
    /\ gameState = "paused"

\* the fields of the session other than the bottom player's motion state
SessionFields ==
    <<bottomPlayer, topPlayer, topPlayerLane, jumpVelocity, bottomObstacles,
      topObstacles, score, gameSpeed, topScreenSpeed, bottomScreenSpeed,
      lastTopObstacleTime, lastBottomObstacleX>>

\* C13: once the game state is gameOver no field of the session changes
\* (positions, lane, motion state, jump velocity, obstacles, score, speeds,
\* last-spawn bookkeeping) until a start action is taken.
C13_Frozen ==
    [][gameState = "gameOver" /\ gameState' = "gameOver"
           => UNCHANGED <<SessionFields, bottomPlayerState>>]_vars

\* what the code does keep: every field but the motion state is frozen
GameOverFreezesAllButMotionState ==
    [][gameState = "gameOver" /\ gameState' = "gameOver"
           => UNCHANGED SessionFields]_vars

\* C14: the timeout set by a crawl is never cancelled and fires once: in every
\* game state, gameOver, paused and idle included, a pending timeout goes off
\* later (unless a crawl of a session being played sets a further one first),
\* and the step that uses it up sets running and nothing else does.
C14_RevertFires ==
    /\ \A n \in 1..MaxPending :
           (pendingReverts = n)
               ~> (pendingReverts < n \/ (gameState = "playing" /\ pendingReverts > n))
    /\ [][pendingReverts' < pendingReverts
             => /\ pendingReverts' = pendingReverts - 1
                /\ bottomPlayerState' = "running"
                /\ UNCHANGED gameState]_vars

\* a crawl whose timeout is still pending when the game is over
C14_Witness ==
    /\ gameState = "gameOver"
    /\ bottomPlayerState = "crawling"
    /\ pendingReverts > 0

\* C15: while paused no tick takes effect and resuming resets nothing: from the
\* step that pauses to the state right after the resume, score, speeds,
\* obstacles, positions, lane, motion state and jump velocity stay as they were.
C15_PauseKeeps ==
    [][gameState = "paused" /\ gameState' \in {"paused", "playing"}
           => UNCHANGED <<SessionFields, bottomPlayerState>>]_vars

\* what the code does keep: every field but the motion state
PauseKeepsAllButMotionState ==
    [][gameState = "paused" /\ gameState' \in {"paused", "playing"}
           => UNCHANGED SessionFields]_vars

\* the initial values of the gameplay fields: score 0, no obstacles, the top
\* player in lane 2 at that lane's centre and y = TOP_PLAYER_Y, the bottom
\* player at x = 100 on the ground, running, jump velocity 0, stream speeds 1.5
\* and 2, last top spawn time 0
GameplayInitial ==
    /\ score = 0
    /\ bottomObstacles = <<>>
    /\ topObstacles = <<>>
    /\ topPlayerLane = 2
    /\ topPlayer = [x |-> LaneCenterX(2), y |-> Px(TOP_PLAYER_Y)]
    /\ bottomPlayer = [x |-> Px(100), y |-> groundY]
    /\ bottomPlayerState = "running"
    /\ jumpVelocity = 0
    /\ 2 * topScreenSpeed = 3 * Scale
    /\ bottomScreenSpeed = 2 * Scale
    /\ lastTopObstacleTime = 0

\* C16: the step that leaves idle or gameOver is a start: it leads to playing
\* with every gameplay field at its initial value.
C16_StartInitialises ==
    [][gameState' # gameState /\ gameState \in {"idle", "gameOver"}
           => gameState' = "playing" /\ GameplayInitial']_vars

\* a session started from gameOver: the high score of the lost session is
\* kept, the rest is new
C16_Witness ==
    /\ gameState = "playing"
    /\ highScore > 0
    /\ score = 0
    /\ topObstacles = <<>>
    /\ lastTopObstacleTime = 0

\* C17: after every start and every reset the recorded position of the last
\* bottom spawn is its initial value GAME_WIDTH, whatever it was before.
C17_LastBottomXReset ==
    [][(gameState' = "playing" /\ gameState \in {"idle", "gameOver"})
         \/ (gameState' = "idle" /\ gameState # "idle")
           => lastBottomObstacleX' = Px(GAME_WIDTH)]_vars

\* C18: the reset action can be taken in every game state (idle, playing,
\* paused, gameOver), whenever the page takes input at all.
C18_ResetAnywhere == ~CollisionPending(Cur) => ENABLED ResetGame

\* what the code does offer: a reset while playing or paused, and it leads to
\* idle with the gameplay fields at their initial values
ResetWhereOffered ==
    /\ gameState \in {"playing", "paused"} /\ ~CollisionPending(Cur) => ENABLED ResetGame
    /\ gameState \in {"idle", "gameOver"} => ~ENABLED ResetGame

ResetInitialises ==
    [][gameState' = "idle" /\ gameState # "idle" => GameplayInitial']_vars

\* C19: on every entry into gameOver with a numeric high score, the high score
\* becomes the larger of the previous high score and the score of the
\* collision; when the score is the larger, the high score in memory is that
\* score and the stored item is its decimal text, and otherwise both are left
\* as they were.
C19_HighScoreIsMax ==
    [][gameState' = "gameOver" /\ gameState # "gameOver" /\ highScore # NaN
           => /\ highScore' = Max(highScore, score)
              /\ score > highScore
                    => storedHighScore' = Item(toString(score))
                       /\ parseInt(storedHighScore'.text) = highScore'
              /\ score <= highScore => UNCHANGED <<highScore, storedHighScore>>]_vars

\* a game over at score 158 over the saved high score 100: both are 158
C19_Witness ==
    /\ gameState = "gameOver"
    /\ score = 158
    /\ highScore = 158
    /\ storedHighScore = Item(<<"1", "5", "8">>)

\* a game over that left the saved high score 400 as it was
C19_KeptWitness ==
    /\ gameState = "gameOver"
    /\ score = 158
    /\ highScore = 400
    /\ storedHighScore = Item(<<"4", "0", "0">>)

\* C20: whatever item the storage held at startup, missing and malformed ones
\* included, the high score is a number, so that a game over with a positive
\* score leaves a high score of at least that score.
C20_MalformedDegrades ==
    gameState = "gameOver" /\ score > 0 => highScore # NaN /\ highScore >= score

\* what the code does: a missing item and an empty one give the high score 0
MissingDegrades ==
    storedHighScore \in {NoItem, Item(<<>>)} => highScore = 0

\* the distance in x of two obstacles
Apart(a, b) == IF a.x > b.x THEN a.x - b.x ELSE b.x - a.x

\* C21: any two live bottom obstacles are more than MIN_OBSTACLE_DISTANCE apart
\* in x, on every tick, the ticks directly after a spawn included.
C21_BottomSpacing ==
    \A i, j \in 1..Len(bottomObstacles) :
        i # j => Apart(bottomObstacles[i], bottomObstacles[j]) > Px(MIN_OBSTACLE_DISTANCE)

\* C22: the batch of a top spawn holds between 1 and LANES - 1 obstacles, their
\* lanes are within 0..LANES-1 and pairwise distinct, and so one lane at least
\* stays open.
C22_BatchLeavesLane ==
    result # <<>> =>
        \E batch \in {result[1]} :
            /\ Len(batch) \in 1..(LANES - 1)
            /\ \A i \in 1..Len(batch) : batch[i].lane \in 0..(LANES - 1)
            /\ \A i, j \in 1..Len(batch) : batch[i].lane = batch[j].lane => i = j
            /\ \E open \in 0..(LANES - 1) : \A i \in 1..Len(batch) : batch[i].lane # open

\* a batch of the largest size, LANES - 1 obstacles
C22_Witness == result # <<>> /\ Len(result[1]) = LANES - 1

\* a tick that appends a top batch: after it obstacles stand at y = -30
TopBatchSpawned ==
    /\ now' # now
    /\ \E i \in 1..Len(topObstacles') : topObstacles'[i].y = Px(-30)

\* C23: lastTopObstacleTime is the time of the last top batch of the session
\* (0 after a start or reset), and a batch is spawned only on a tick whose time
\* is more than 2000 ms after it, or as the first batch of its session.
C23_TopCooldown ==
    /\ [][TopBatchSpawned
             => /\ lastTopObstacleTime' = now'
                /\ lastTopObstacleTime = 0 \/ now' - lastTopObstacleTime > 2000]_vars
    /\ [][lastTopObstacleTime' # lastTopObstacleTime
             => TopBatchSpawned \/ (lastTopObstacleTime' = 0 /\ gameState' # gameState)]_vars

\* a second batch of a session, live together with the first
C23_Witness ==
    /\ Cardinality({topObstacles[i].y : i \in 1..Len(topObstacles)}) = 2
    /\ \E i \in 1..Len(topObstacles) : topObstacles[i].y = Px(-30)
    /\ lastTopObstacleTime = now

\* the bottom player's nominal horizontal span strictly overlaps the obstacle's
SpansOverlap(obs) ==
    /\ bottomPlayer.x + Px(PLAYER_SIZE) \div 2 > obs.x
    /\ bottomPlayer.x - Px(PLAYER_SIZE) \div 2 < obs.x + obs.width

\* a live bottom obstacle of the type, under or over the bottom player
Under(type) ==
    \E i \in 1..Len(bottomObstacles) :
        bottomObstacles[i].type = type /\ SpansOverlap(bottomObstacles[i])

OnGround == bottomPlayer.y = groundY

\* the collision effect of this render finds a collision of the bottom player
BottomCollisionDetected ==
    checkCollision(bottomPlayer, bottomObstacles, TRUE, bottomPlayerState)

\* C24: while playing, a bottom player running on the ground with a pit under
\* it collides with the pit: the collision is detected (and ends the game).
C24_PitNeedsJump ==
    gameState = "playing" /\ bottomPlayerState = "running" /\ OnGround /\ Under("pit")
        => BottomCollisionDetected

\* what the code does: no player collides with a pit at any height
PitNeverCollides ==
    \A i \in 1..Len(bottomObstacles) :
        bottomObstacles[i].type = "pit"
            => ~BoxesCollide(PlayerBox(bottomPlayer, TRUE, bottomPlayerState),
                             ObstacleBox(bottomObstacles[i]))

\* C25: while playing, a bottom player on the ground with an air_branch over it
\* collides with the branch when running and does not when crawling.
C25_BranchNeedsCrawl ==
    gameState = "playing" /\ OnGround /\ Under("air_branch")
        => /\ bottomPlayerState = "running" => BottomCollisionDetected
           /\ bottomPlayerState = "crawling" => ~BottomCollisionDetected

\* what the code does: on the ground neither the running nor the crawling
\* player collides with an air_branch
BranchClearsGround ==
    OnGround /\ Under("air_branch") /\ bottomPlayerState \in {"running", "crawling"}
        => ~BottomCollisionDetected

\* C26: while playing, a bottom player on the ground, running or crawling, with
\* a ground_box under it collides with the box; a player over a ground_box is
\* clear of it only in the air with y + PLAYER_SIZE/2 at or above the top of
\* the box, GAME_HEIGHT - GROUND_HEIGHT - 40.
C26_BoxNeedsJump ==
    gameState = "playing" /\ Under("ground_box")
        => /\ OnGround /\ bottomPlayerState \in {"running", "crawling"}
                => BottomCollisionDetected
           /\ ~BottomCollisionDetected
                => /\ bottomPlayer.y < groundY
                   /\ bottomPlayer.y + Px(PLAYER_SIZE) \div 2
                          <= Px(GAME_HEIGHT - GROUND_HEIGHT - 40)

\* what the code does for a player in state running or jumping, and for a
\* crawling player on the ground
BoxNeedsJumpUnlessCrawlingInAir ==
    gameState = "playing" /\ Under("ground_box")
        /\ (bottomPlayerState # "crawling" \/ OnGround)
        => (BottomCollisionDetected
               <=> bottomPlayer.y + Px(PLAYER_SIZE) \div 2
                      > Px(GAME_HEIGHT - GROUND_HEIGHT - 40))

\* the nominal box of a player: the square of side PLAYER_SIZE around (x, y)
NominalBox(player) ==
    [left |-> player.x - Px(PLAYER_SIZE) \div 2,
     right |-> player.x + Px(PLAYER_SIZE) \div 2,
     top |-> player.y - Px(PLAYER_SIZE) \div 2,
     bottom |-> player.y + Px(PLAYER_SIZE) \div 2]

\* C27: the hitbox of a call of checkCollision is the nominal box, except for
\* the crawling bottom player, whose box keeps the nominal horizontal span and
\* has the vertical span [y, y + PLAYER_SIZE/3], inside the lower half of the
\* nominal box; and a collision of the crawling box is one of the nominal box.
C27_CrawlBox ==
    probe # <<>> =>
        \E box \in {PlayerBox(probe.player, probe.isBottom, probe.bpState)},
           nominal \in {NominalBox(probe.player)} :
            /\ probe.isBottom /\ probe.bpState = "crawling"
                 => /\ box.left = nominal.left /\ box.right = nominal.right
                    /\ box.top = probe.player.y
                    /\ 3 * (box.bottom - probe.player.y) = Px(PLAYER_SIZE)
                    /\ box.top >= probe.player.y /\ box.bottom <= nominal.bottom
            /\ ~(probe.isBottom /\ probe.bpState = "crawling") => box = nominal
            /\ result = <<TRUE>>
                 => \E i \in 1..Len(probe.obstacles) :
                        BoxesCollide(nominal, ObstacleBox(probe.obstacles[i]))

\* a call for the crawling bottom player that finds a collision
C27_Witness ==
    /\ result = <<TRUE>>
    /\ probe.isBottom
    /\ probe.bpState = "crawling"

\* the size of an obstacle is the one of its type: pit 50x30, ground_box 35x40,
\* air_branch 60x15, lane barrier 0.8 * LANE_WIDTH x 30
SizeOfType(obs) ==
    /\ obs.type = "pit" => obs.width = Px(50) /\ obs.height = Px(30)
    /\ obs.type = "ground_box" => obs.width = Px(35) /\ obs.height = Px(40)
    /\ obs.type = "air_branch" => obs.width = Px(60) /\ obs.height = Px(15)
    /\ obs.type = "normal" => 10 * obs.width = 8 * Px(LANE_WIDTH) /\ obs.height = Px(30)

\* obstacle b of the state after a step is obstacle a of the state before it
\* with nothing changed but, at most, the given coordinate
SameBut(a, b, coordinate) ==
    /\ b.id = a.id /\ b.type = a.type /\ b.lane = a.lane
    /\ b.width = a.width /\ b.height = a.height
    /\ coordinate = "x" => b.y = a.y
    /\ coordinate = "y" => b.x = a.x

\* C28: every live obstacle has the width and height of its type, and a step
\* changes of an obstacle that stays live nothing but the x of a bottom obstacle
\* and the y of a top obstacle.
C28_ObstaclesKeepShape ==
    /\ [](\A i \in 1..Len(bottomObstacles) : SizeOfType(bottomObstacles[i]))
    /\ [](\A i \in 1..Len(topObstacles) : SizeOfType(topObstacles[i]))
    /\ [][\A i \in 1..Len(bottomObstacles), j \in 1..Len(bottomObstacles') :
             bottomObstacles'[j].id = bottomObstacles[i].id
                 => SameBut(bottomObstacles[i], bottomObstacles'[j], "x")]_vars
    /\ [][\A i \in 1..Len(topObstacles), j \in 1..Len(topObstacles') :
             topObstacles'[j].id = topObstacles[i].id
                 => SameBut(topObstacles[i], topObstacles'[j], "y")]_vars

\* obstacles of both streams that ticks have moved from where they were spawned
C28_Witness ==
    /\ \E i \in 1..Len(bottomObstacles) : bottomObstacles[i].x < Px(GAME_WIDTH)
    /\ \E i \in 1..Len(topObstacles) : topObstacles[i].y > Px(-30)

\* the least integer not below a / b
Ceil(a, b) == (a + b - 1) \div b

\* C29: a bottom obstacle spawned at x = GAME_WIDTH and moved left by a constant
\* speed s per tick is in the list after every tick before tick
\* ceil((GAME_WIDTH + width) / s), s times the tick further left, and is gone
\* after that tick.
C29_BottomLifetime ==
    probe # <<>> =>
        \E last \in {Ceil(Px(GAME_WIDTH) + probe.spawned.width, probe.speed)} :
            /\ probe.ticks < last
                 => /\ Len(result) = 1
                    /\ result[1].x = Px(GAME_WIDTH) - probe.ticks * probe.speed
                    /\ result[1].x > -result[1].width
            /\ probe.ticks >= last
                 => /\ result = <<>>
                    /\ Px(GAME_WIDTH) - probe.ticks * probe.speed <= -probe.spawned.width

\* a pit at speed 5 removed on tick 170 = (800 + 50) / 5, with x = -width
C29_Witness ==
    /\ probe # <<>>
    /\ result = <<>>
    /\ probe.ticks * probe.speed = Px(GAME_WIDTH) + probe.spawned.width

\* C30: no obstacle that has left the view is in its list: a bottom obstacle has
\* its right edge right of the view's left edge, a top obstacle has its top
\* edge above the view's bottom edge.
C30_OnlyVisibleKept ==
    /\ \A i \in 1..Len(bottomObstacles) :
           bottomObstacles[i].x + bottomObstacles[i].width > 0
    /\ \A i \in 1..Len(topObstacles) : topObstacles[i].y < Px(GAME_HEIGHT)

\* what the filters of the two lists keep: a top obstacle lives until its top
\* edge is its own height below the view
KeptByTheFilters ==
    /\ \A i \in 1..Len(bottomObstacles) :
           bottomObstacles[i].x + bottomObstacles[i].width > 0
    /\ \A i \in 1..Len(topObstacles) :
           topObstacles[i].y < Px(GAME_HEIGHT) + topObstacles[i].height

\* C31: a tick raises the top speed by 0.0008 up to 4 and the bottom speed by
\* 0.0015 up to 6; the speeds stay within [1.5, 4] and [2, 6], the bottom speed
\* above the top speed; a speed goes down only by a start or a reset, to its
\* initial value.
C31_Speeds ==
    /\ [](/\ TopSpeed0 <= topScreenSpeed /\ topScreenSpeed <= TopSpeedCap
          /\ BottomSpeed0 <= bottomScreenSpeed /\ bottomScreenSpeed <= BottomSpeedCap
          /\ bottomScreenSpeed > topScreenSpeed)
    /\ [][/\ now' # now
               => /\ gameState = "playing"
                  /\ topScreenSpeed' = Min(topScreenSpeed + TopSpeedInc, TopSpeedCap)
                  /\ bottomScreenSpeed' =
                         Min(bottomScreenSpeed + BottomSpeedInc, BottomSpeedCap)
          /\ topScreenSpeed' < topScreenSpeed \/ bottomScreenSpeed' < bottomScreenSpeed
               => /\ gameState' # gameState
                  /\ gameState' \in {"idle", "playing"}
                  /\ score' = 0
                  /\ topScreenSpeed' = TopSpeed0
                  /\ bottomScreenSpeed' = BottomSpeed0
          /\ now' = now /\ score' = score
               => /\ topScreenSpeed' = topScreenSpeed
                  /\ bottomScreenSpeed' = bottomScreenSpeed]_vars

\* a tick taken with both speeds at their caps
C31_Witness ==
    /\ gameState = "playing"
    /\ nTicks > 0
    /\ topScreenSpeed = TopSpeedCap
    /\ bottomScreenSpeed = BottomSpeedCap
    /\ score > 3125

\* C32: at the end of every tick lastBottomObstacleX is the x of the last live
\* bottom obstacle (GAME_WIDTH when the tick spawned one) or, with no bottom
\* obstacle live, its value before the tick less the game speed.
C32_LastBottomXCurrent ==
    [][now' # now
         => lastBottomObstacleX' =
                IF bottomObstacles' # <<>>
                THEN bottomObstacles'[Len(bottomObstacles')].x
                ELSE lastBottomObstacleX - gameSpeed]_vars

\* what the tick leaves when the interval was set by the last render: the x
\* the last obstacle had before the tick moved it
LastBottomXOneTickBehind ==
    [][now' # now /\ bottomObstacles # <<>> /\ loopBottomObstacles = bottomObstacles
         => lastBottomObstacleX' = bottomObstacles[Len(bottomObstacles)].x]_vars

\* C33: a bottom player whose state is running or crawling is on the ground;
\* it is above the ground only in state jumping.
C33_GroundedUnlessJumping ==
    bottomPlayerState \in {"running", "crawling"} => bottomPlayer.y = groundY

\* the player comes to be off the ground in another state than jumping only by
\* the callback of a crawl timeout that fires during a jump
OnlyRevertLeavesInAir ==
    [][(/\ C33_GroundedUnlessJumping
        /\ bottomPlayerState' \in {"running", "crawling"}
        /\ bottomPlayer'.y # groundY)
         => (/\ bottomPlayerState = "jumping"
             /\ bottomPlayerState' = "running"
             /\ pendingReverts' = pendingReverts - 1)]_vars

\* C34: the callback of a crawl timeout ends only the crawl that set it: when
\* it fires while the bottom player is jumping, the player goes on jumping.
C34_RevertSparesJump ==
    [][pendingReverts' < pendingReverts /\ bottomPlayerState = "jumping"
         => bottomPlayerState' = "jumping"]_vars

\* C35: the jump velocity is 0 whenever the bottom player is not jumping.
C35_VelocityZeroUnlessJumping ==
    bottomPlayerState # "jumping" => jumpVelocity = 0

\* with one of the two keys held at most, and no crawl timeout going off, a
\* step from a consistent state leaves the velocity 0 unless the player jumps
VelocityConsistentOneKey ==
    [][(/\ C35_VelocityZeroUnlessJumping
        /\ ~(Held(Cur, JumpKeys) /\ Held(Cur, CrawlKeys))
        /\ pendingReverts' >= pendingReverts)
         => (bottomPlayerState' # "jumping" => jumpVelocity' = 0)]_vars

\* the high score changes only by growing, on an entry into gameOver, and the
\* stored item is then its decimal text
HighScoreSteps ==
    [][highScore' # highScore
         => /\ highScore # NaN
            /\ highScore' > highScore
            /\ gameState = "playing"
            /\ gameState' = "gameOver"
            /\ storedHighScore'.found
            /\ parseInt(storedHighScore'.text) = highScore']_vars

\* C36: the high score never decreases, start, pause, resume and reset leave
\* it alone, in state gameOver it is at least the score, and a game over that
\* set a record leaves the stored value equal to the high score in memory.
C36_HighScoreSound ==
    /\ [](gameState = "gameOver" => highScore # NaN /\ highScore >= score)
    /\ HighScoreSteps

\* the same for a session constructed with a number as its high score
HighScoreSoundWhenNumeric ==
    /\ [](gameState = "gameOver" /\ highScore # NaN => highScore >= score)
    /\ HighScoreSteps

\* the vertical spans of the top player and of the barrier overlap strictly
BarrierBesidePlayer ==
    /\ probe.player.y - Px(PLAYER_SIZE) \div 2 < probe.obstacles[1].y + probe.obstacles[1].height
    /\ probe.player.y + Px(PLAYER_SIZE) \div 2 > probe.obstacles[1].y

\* C37: the top player collides only with a barrier of its own lane: a barrier
\* of another lane never overlaps the player's horizontal span, whatever its
\* height, and a barrier of the player's lane collides exactly when the
\* vertical spans overlap strictly.
C37_OwnLaneOnly ==
    probe # <<>> /\ result # <<>> =>
        /\ probe.obstacles[1].lane # probe.lane
             => /\ result[1] = FALSE
                /\ \/ probe.player.x + Px(PLAYER_SIZE) \div 2 <= probe.obstacles[1].x
                   \/ probe.player.x - Px(PLAYER_SIZE) \div 2
                          >= probe.obstacles[1].x + probe.obstacles[1].width
        /\ probe.obstacles[1].lane = probe.lane => (result[1] <=> BarrierBesidePlayer)

\* a barrier of the next lane beside the player: no collision
C37_Witness ==
    /\ probe # <<>>
    /\ result = <<FALSE>>
    /\ probe.obstacles[1].lane = probe.lane + 1
    /\ BarrierBesidePlayer

\* a barrier of the player's own lane beside it: a collision
C37_OwnLaneWitness ==
    /\ probe # <<>>
    /\ result = <<TRUE>>
    /\ probe.obstacles[1].lane = probe.lane

\* the vertical spans of two live top obstacles overlap
SameHeight(a, b) == a.y < b.y + b.height /\ b.y < a.y + a.height

\* C38: two live top obstacles whose vertical spans overlap are of the same
\* batch (the barriers of a batch share their y), so that the barriers at any
\* one height block LANES - 1 lanes at most.
C38_TopPassable ==
    \A i \in 1..Len(topObstacles) :
        /\ \A j \in 1..Len(topObstacles) :
               SameHeight(topObstacles[i], topObstacles[j])
                   => topObstacles[i].y = topObstacles[j].y
        /\ Cardinality({ topObstacles[j].lane : j \in
                            { k \in 1..Len(topObstacles) :
                                  SameHeight(topObstacles[i], topObstacles[k]) } })
               <= LANES - 1

====
